---- MODULE Spec2Model ----
(***************************************************************************)
(* Model of service/api/notifyRouter.ts: the Upptime webhook that relays   *)
(* alerts to Telegram chats and reports handler failures to Slack.         *)
(*                                                                         *)
(* One request is followed from the call of fetch to its response.  JS     *)
(* strings are sequences of one-character strings, so that the regular     *)
(* expressions, String.includes, String.slice and JSON.stringify are       *)
(* computed on characters.  Outbound HTTP calls (Telegram sendMessage, the *)
(* Slack webhook) are collaborators whose outcome is chosen by the         *)
(* environment while the handler is suspended on its await.                *)
(***************************************************************************)
EXTENDS Integers, Sequences, FiniteSets, TLC

(* ------------------------------ bounds --------------------------------- *)

\* Arrays of env keys in a routing entry have 1..MaxFanout elements.
MaxFanout == 3

\* At most MaxMissing required variables are unset or empty.
MaxMissing == 2

\* Long messages have lengths 4000-MaxOver .. 4000+MaxOver.
MaxOver == 2

(* ------------------------- program constants --------------------------- *)

\* message.slice(0, 4000)
TELEGRAM_TEXT_LIMIT == 4000

REQUIRED_ENV_KEYS ==
  << "ROUTER_SECRET", "TELEGRAM_BOT_TOKEN", "TELEGRAM_CHAT_NEAR",
     "TELEGRAM_CHAT_BUNGEE", "TELEGRAM_CHAT_ACROSS", "TELEGRAM_CHAT_LIFI" >>

SLACK_ERROR_WEBHOOK_URL == "SLACK_ERROR_WEBHOOK_URL"

\* The names process.env is read under.
EnvKeys == { REQUIRED_ENV_KEYS[i] : i \in DOMAIN REQUIRED_ENV_KEYS } \cup { SLACK_ERROR_WEBHOOK_URL }

\* "1click.chaindefuser.com"
PATTERN_1CLICK ==
  <<"1", "c", "l", "i", "c", "k", ".", "c", "h", "a", "i", "n", "d", "e", "f", "u", "s", "e", "r", ".", "c", "o", "m">>

\* "backend.bungee.exchange"
PATTERN_BUNGEE ==
  <<"b", "a", "c", "k", "e", "n", "d", ".", "b", "u", "n", "g", "e", "e", ".", "e", "x", "c", "h", "a", "n", "g", "e">>

(* ---------------------------- JS strings ------------------------------- *)

\* s.includes(p): p occurs in s as a contiguous run of characters
Includes(s, p) ==
  \E i \in 1..(Len(s) - Len(p) + 1) : SubSeq(s, i, i + Len(p) - 1) = p

\* A slice that keeps one character too many
Slice0_offByOne(s, n) == SubSeq(s, 1, IF Len(s) < n + 1 THEN Len(s) ELSE n + 1)

\* s.slice(0, n) for n >= 0
Slice0(s, n) == SubSeq(s, 1, IF Len(s) < n THEN Len(s) ELSE n)

IsQuote(c) == c \in { "\"", "'" }

\* s.replace(/^["']|["']$/g, ""): one leading and one trailing quote removed
StripQuotes(s) ==
  LET s1 == IF Len(s) > 0 /\ IsQuote(s[1]) THEN Tail(s) ELSE s
  IN  IF Len(s1) > 0 /\ IsQuote(s1[Len(s1)]) THEN SubSeq(s1, 1, Len(s1) - 1) ELSE s1

(* ---------------------------- JSON values ------------------------------ *)

\* A JSON value: t is its type, s its characters (string), n its number,
\* b its boolean, f its fields (object: <<name, value>> pairs; array: the
\* same with empty names).  "undefined" is the JS undefined.
JStr(s)  == [t |-> "string",  s |-> s,    n |-> 0, b |-> FALSE, f |-> << >>]
JNum(n)  == [t |-> "number",  s |-> << >>, n |-> n, b |-> FALSE, f |-> << >>]
JBool(b) == [t |-> "boolean", s |-> << >>, n |-> 0, b |-> b,     f |-> << >>]
JNull    == [t |-> "null",    s |-> << >>, n |-> 0, b |-> FALSE, f |-> << >>]
JObj(f)  == [t |-> "object",  s |-> << >>, n |-> 0, b |-> FALSE, f |-> f]
JArr(f)  == [t |-> "array",   s |-> << >>, n |-> 0, b |-> FALSE, f |-> f]
Undefined == [t |-> "undefined", s |-> << >>, n |-> 0, b |-> FALSE, f |-> << >>]

F_data    == <<"d", "a", "t", "a">>
F_message == <<"m", "e", "s", "s", "a", "g", "e">>
F_text    == <<"t", "e", "x", "t">>

\* v.name in JS: the field of an object, undefined on anything else that is
\* not null or undefined (the names used are no properties of primitives)
Prop(v, name) ==
  IF v.t = "object" /\ \E i \in DOMAIN v.f : v.f[i][1] = name
  THEN v.f[CHOOSE i \in DOMAIN v.f : v.f[i][1] = name][2]
  ELSE Undefined

\* v?.name
OptProp(v, name) == IF v.t \in { "null", "undefined" } THEN Undefined ELSE Prop(v, name)

\* JS truthiness
Truthy(v) ==
  CASE v.t = "string"  -> v.s # << >>
    [] v.t = "number"  -> v.n # 0
    [] v.t = "boolean" -> v.b
    [] v.t \in { "null", "undefined" } -> FALSE
    [] OTHER -> TRUE

Digit == [ d \in 0..9 |-> CASE d = 0 -> "0" [] d = 1 -> "1" [] d = 2 -> "2" [] d = 3 -> "3"
                             [] d = 4 -> "4" [] d = 5 -> "5" [] d = 6 -> "6" [] d = 7 -> "7"
                             [] d = 8 -> "8" [] OTHER -> "9" ]

RECURSIVE JsonEscape(_)
\* the characters of a string inside a JSON string literal
JsonEscape(s) ==
  IF s = << >> THEN << >>
  ELSE (IF s[1] \in { "\"", "\\" } THEN << "\\", s[1] >> ELSE << s[1] >>) \o JsonEscape(Tail(s))

RECURSIVE JSONstringify(_)
RECURSIVE StringifyFields(_, _)
\* the members of an object (named) or the elements of an array, comma separated
StringifyFields(f, named) ==
  IF f = << >> THEN << >>
  ELSE (IF named THEN << "\"" >> \o JsonEscape(f[1][1]) \o << "\"", ":" >> ELSE << >>)
       \o JSONstringify(f[1][2])
       \o (IF Len(f) > 1 THEN << "," >> ELSE << >>)
       \o StringifyFields(Tail(f), named)

\* JSON.stringify(v) for a value parsed from JSON
JSONstringify(v) ==
  CASE v.t = "string"  -> << "\"" >> \o JsonEscape(v.s) \o << "\"" >>
    [] v.t = "number"  -> << Digit[v.n] >>
    [] v.t = "boolean" -> IF v.b THEN <<"t", "r", "u", "e">> ELSE <<"f", "a", "l", "s", "e">>
    [] v.t = "object"  -> << "{" >> \o StringifyFields(v.f, TRUE) \o << "}" >>
    [] v.t = "array"   -> << "[" >> \o StringifyFields(v.f, FALSE) \o << "]" >>
    [] OTHER           -> <<"n", "u", "l", "l">>

(* ------------------------- message extraction -------------------------- *)

\* extractMessage(payload): the value the function returns, which is a
\* string only if the chosen field is one
extractMessage(payload) ==
  IF payload.t = "string" THEN payload
  ELSE IF payload.t \in { "object", "array" } /\ Truthy(OptProp(Prop(payload, F_data), F_message))
       THEN Prop(Prop(payload, F_data), F_message)
  ELSE IF payload.t \in { "object", "array" } /\ Truthy(Prop(payload, F_message))
       THEN Prop(payload, F_message)
  ELSE JStr(JSONstringify(payload))

\* A value has a replace method only if it is a string; calling it on
\* anything else raises a TypeError.
HasReplace(v) == v.t = "string"

\* index of the first character after "(http://" or "(https://" when the
\* text at i starts with one of them, 0 otherwise
SchemeEnd(m, i) ==
  IF i + 8 <= Len(m) /\ SubSeq(m, i, i + 8) = <<"(", "h", "t", "t", "p", "s", ":", "/", "/">> THEN i + 9
  ELSE IF i + 7 <= Len(m) /\ SubSeq(m, i, i + 7) = <<"(", "h", "t", "t", "p", ":", "/", "/">> THEN i + 8
  ELSE 0

\* /\((?<url>https?:\/\/[^)]+)\)/ matches at i: the scheme, at least one
\* character other than ")", and a ")" closing the run
MatchesAt(m, i) ==
  LET j == SchemeEnd(m, i)
  IN  /\ j # 0
      /\ j <= Len(m)
      /\ m[j] # ")"
      /\ \E k \in (j + 1)..Len(m) : m[k] = ")"

\* extractUrl(message): the url group of the first match, or null.
\* null is the empty sequence: the function maps an empty group to null.
extractUrl(m) ==
  IF \E i \in 1..Len(m) : MatchesAt(m, i)
  THEN LET i == CHOOSE i \in 1..Len(m) : MatchesAt(m, i) /\ \A h \in 1..(i - 1) : ~MatchesAt(m, h)
           j == SchemeEnd(m, i)
           k == CHOOSE k \in (j + 1)..Len(m) : m[k] = ")" /\ \A h \in (j + 1)..(k - 1) : m[h] # ")"
       IN  SubSeq(m, i + 1, k - 1)
  ELSE << >>
(* --------------------------- configuration ----------------------------- *)

\* process.env[key] of a variable that is not set
EnvUndefined == "<undefined>"

\* The value each variable holds when it is set.
Configured ==
  [ k \in EnvKeys |->
      CASE k = "ROUTER_SECRET"        -> "s3cret"
        [] k = "TELEGRAM_BOT_TOKEN"   -> "bot-token"
        [] k = "TELEGRAM_CHAT_NEAR"   -> "chat-near"
        [] k = "TELEGRAM_CHAT_BUNGEE" -> "chat-bungee"
        [] k = "TELEGRAM_CHAT_ACROSS" -> "chat-across"
        [] k = "TELEGRAM_CHAT_LIFI"   -> "chat-lifi"
        [] OTHER                      -> "https://hooks.slack.example/T0" ]

\* process.env: every variable is unset, empty or set; at most MaxMissing
\* of the required ones are unset or empty
Environments ==
  { [ k \in EnvKeys |-> CASE k \in um[1] -> EnvUndefined
                          [] k \in um[2] -> ""
                          [] OTHER       -> Configured[k] ]
      : um \in { x \in (SUBSET EnvKeys) \X (SUBSET EnvKeys) :
                   /\ x[1] \cap x[2] = { }
                   /\ Cardinality((x[1] \cup x[2]) \ { SLACK_ERROR_WEBHOOK_URL }) <= MaxMissing } }

\* !process.env[key] is false: the variable holds a non-empty string
EnvTruthy(v) == v \notin { EnvUndefined, "" }

\* Only unset variables count as missing
Missing_undefinedOnly(e) == SelectSeq(REQUIRED_ENV_KEYS, LAMBDA k : e[k] = EnvUndefined)

\* The keys of REQUIRED_ENV_KEYS, in order, whose variable is unset or empty
Missing(e) == SelectSeq(REQUIRED_ENV_KEYS, LAMBDA k : ~EnvTruthy(e[k]))

\* URL_PATTERN_TO_ENV_KEY as shipped, in insertion order.  An entry maps
\* its pattern to one key (isArray FALSE) or to an array of keys.
URL_PATTERN_TO_ENV_KEY ==
  << [pattern |-> PATTERN_1CLICK, isArray |-> FALSE, keys |-> << "TELEGRAM_CHAT_NEAR" >>],
     [pattern |-> PATTERN_BUNGEE, isArray |-> FALSE, keys |-> << "TELEGRAM_CHAT_BUNGEE" >>] >>

\* The keys a routing entry may name: the chat keys of RequiredEnv
CHAT_KEYS == SubSeq(REQUIRED_ENV_KEYS, 3, 6)

\* A table the type of URL_PATTERN_TO_ENV_KEY admits: the first pattern
\* fans out to an array of the first n chat keys.
FanoutTable(n) ==
  << [pattern |-> PATTERN_1CLICK, isArray |-> TRUE,
      keys |-> SubSeq(CHAT_KEYS, 1, IF n < Len(CHAT_KEYS) THEN n ELSE Len(CHAT_KEYS))],
     [pattern |-> PATTERN_BUNGEE, isArray |-> FALSE, keys |-> << "TELEGRAM_CHAT_BUNGEE" >>] >>

\* The shipped table and the fan-out tables
RoutingTables == { URL_PATTERN_TO_ENV_KEY } \cup { FanoutTable(n) : n \in 1..MaxFanout }

\* The result of getTelegramChatId: undefined, one chat id, or an array
NoChat == [defined |-> FALSE, isArray |-> FALSE, ids |-> << >>]

\* A lookup that falls back to the first entry when no pattern matches
getTelegramChatId_default(url, e, table) ==
  LET i == IF url # << >> /\ \E h \in DOMAIN table : Includes(url, table[h].pattern)
           THEN CHOOSE h \in DOMAIN table :
                  /\ Includes(url, table[h].pattern)
                  /\ \A g \in 1..(h - 1) : ~Includes(url, table[g].pattern)
           ELSE 1
  IN  [defined |-> TRUE, isArray |-> table[i].isArray,
       ids |-> [ n \in DOMAIN table[i].keys |-> e[table[i].keys[n]] ]]

\* A lookup that takes the last matching entry
getTelegramChatId_lastMatch(url, e, table) ==
  IF url = << >> \/ ~\E i \in DOMAIN table : Includes(url, table[i].pattern) THEN NoChat
  ELSE LET i == CHOOSE i \in DOMAIN table :
                  /\ Includes(url, table[i].pattern)
                  /\ \A h \in (i + 1)..Len(table) : ~Includes(url, table[h].pattern)
       IN  [defined |-> TRUE, isArray |-> table[i].isArray,
            ids |-> [ n \in DOMAIN table[i].keys |-> e[table[i].keys[n]] ]]

\* getTelegramChatId(url, env) over table
getTelegramChatId(url, e, table) ==
  IF url = << >> THEN NoChat
  ELSE IF ~\E i \in DOMAIN table : Includes(url, table[i].pattern) THEN NoChat
  ELSE LET i == CHOOSE i \in DOMAIN table :
                  /\ Includes(url, table[i].pattern)
                  /\ \A h \in 1..(i - 1) : ~Includes(url, table[h].pattern)
           envKey == table[i]
       IN  [defined |-> TRUE, isArray |-> envKey.isArray,
            ids |-> [ n \in DOMAIN envKey.keys |-> e[envKey.keys[n]] ]]

\* !chatIds: undefined or an empty string; an array is always truthy
NoRoute(c) == ~c.defined \/ (~c.isArray /\ ~EnvTruthy(c.ids[1]))

\* (Array.isArray(chatIds) ? chatIds : [chatIds]).filter(Boolean)
Targets(c) == SelectSeq(c.ids, EnvTruthy)

(* ------------------------------ requests ------------------------------- *)

\* url.searchParams.get("key") of a request without the parameter
NoKey == "<null>"

\* The key parameter of the request: absent, the secret, or something else
Keys == { NoKey, "s3cret", "wrong" }

\* A comparison that lets a request without key through
KeyMatches_missingPasses(k, secret) == k = secret \/ k = NoKey

\* searchParams.get("key") !== env.ROUTER_SECRET is false
KeyMatches(k, secret) == k = secret

\* "https://1click.chaindefuser.com/x"
UrlNear ==
  <<"h", "t", "t", "p", "s", ":", "/", "/", "1", "c", "l", "i", "c", "k", ".", "c", "h", "a", "i", "n", "d", "e", "f", "u", "s", "e", "r", ".", "c", "o", "m", "/", "x">>

\* "http://backend.bungee.exchange"
UrlBungee ==
  <<"h", "t", "t", "p", ":", "/", "/", "b", "a", "c", "k", "e", "n", "d", ".", "b", "u", "n", "g", "e", "e", ".", "e", "x", "c", "h", "a", "n", "g", "e">>

\* "https://x.io/backend.bungee.exchange/1click.chaindefuser.com"
UrlBoth ==
  <<"h", "t", "t", "p", "s", ":", "/", "/", "x", ".", "i", "o", "/", "b", "a", "c", "k", "e", "n", "d", ".", "b", "u", "n", "g", "e", "e", ".", "e", "x", "c", "h", "a", "n", "g", "e", "/", "1", "c", "l", "i", "c", "k", ".", "c", "h", "a", "i", "n", "d", "e", "f", "u", "s", "e", "r", ".", "c", "o", "m">>

\* "https://x.io"
UrlNone ==
  <<"h", "t", "t", "p", "s", ":", "/", "/", "x", ".", "i", "o">>

\* "ftp://1click.chaindefuser.com"
UrlFtp ==
  <<"f", "t", "p", ":", "/", "/", "1", "c", "l", "i", "c", "k", ".", "c", "h", "a", "i", "n", "d", "e", "f", "u", "s", "e", "r", ".", "c", "o", "m">>

\* "https://"
UrlEmpty ==
  <<"h", "t", "t", "p", "s", ":", "/", "/">>

\* "S "
SiteName ==
  <<"S", " ">>

\* " is down"
IsDown ==
  <<" ", "i", "s", " ", "d", "o", "w", "n">>

\* Alert texts.  The first is the alert Upptime sends.
ShortMessages ==
  { SiteName \o <<"(">> \o UrlNear \o <<")">> \o IsDown,
    SiteName \o <<"(">> \o UrlBungee \o <<")">>,
    SiteName \o <<"(">> \o UrlBoth \o <<")">>,
    SiteName \o <<"(">> \o UrlNone \o <<")">> \o IsDown,
    SiteName \o <<"(">> \o UrlFtp \o <<")">>,
    SiteName \o <<"(">> \o UrlEmpty \o <<")">>,
    SiteName \o IsDown,
    SiteName \o <<"(">> \o UrlNear,
    <<"(">> \o UrlNone \o <<")", " ", "(">> \o UrlNear \o <<")">>,
    <<"(">> \o UrlEmpty \o <<")", " ", "(">> \o UrlBungee \o <<")">>,
    <<"\"">> \o SiteName \o <<"(">> \o UrlNear \o <<")", "\"">>,
    <<"'">> \o SiteName \o IsDown,
    <<"\"">> }

\* A routed alert padded to n characters
LongMessage(n) ==
  LET head == SiteName \o <<"(">> \o UrlBungee \o <<")">>
  IN  head \o [ i \in 1..(n - Len(head)) |-> "x" ]

LongMessages ==
  { LongMessage(n) : n \in (TELEGRAM_TEXT_LIMIT - MaxOver)..(TELEGRAM_TEXT_LIMIT + MaxOver) }

Messages == ShortMessages \cup LongMessages

\* Values of a message field that are not a non-empty string
OddValues ==
  { JNum(0), JNum(7), JBool(TRUE), JBool(FALSE), JNull, JStr(<< >>),
    JObj(<< >>), JArr(<< <<<< >>, JStr(SiteName)>> >>) }

\* The payloads request.json() resolves to
Payloads ==
     { JStr(m) : m \in Messages }
  \cup { JObj(<< <<F_message, JStr(m)>> >>) : m \in Messages }
  \cup { JObj(<< <<F_data, JObj(<< <<F_message, JStr(m)>> >>)>> >>) : m \in Messages }
  \cup { JObj(<< <<F_text, JStr(m)>> >>) : m \in ShortMessages }
  \cup { JArr(<< <<<< >>, JStr(m)>> >>) : m \in ShortMessages }
  \cup { JObj(<< <<F_message, v>> >>) : v \in OddValues }
  \cup { JObj(<< <<F_data, JObj(<< <<F_message, v>> >>)>> >>) : v \in OddValues }
  \cup { JObj(<< <<F_data, d>>, <<F_message, JStr(SiteName \o <<"(">> \o UrlNear \o <<")">>)>> >>) :
           d \in { JObj(<< <<F_message, JStr(SiteName \o <<"(">> \o UrlBungee \o <<")">>)>> >>),
                   JObj(<< <<F_message, JNum(0)>> >>), JObj(<< <<F_message, JNum(7)>> >>),
                   JNull, JNum(7), JStr(SiteName) } }
  \cup { JNull, JNum(7), JBool(TRUE), JObj(<< >>), JArr(<< >>) }

\* A request body: JSON text of a payload, or text that is not JSON
Bodies == [ json : { TRUE }, value : Payloads ] \cup { [json |-> FALSE, value |-> Undefined] }
(* ------------------------------- errors -------------------------------- *)

NoError == [name |-> "", message |-> << >>]

\* new Error(`Missing environment variables: ${missing.join(", ")}`)
MissingEnvError(missing) ==
  [name |-> "Error", message |-> << "Missing environment variables:" >> \o missing]

\* calling replace on a value that is not a string
NotAFunctionError ==
  [name |-> "TypeError", message |-> << "extractMessage(...).replace is not a function" >>]

\* How a sendMessage POST can end: res.ok, a status outside 2xx with or
\* without a response text, or a rejected fetch.
TelegramOutcomes == { "ok", "error-text", "error-empty", "rejected" }

\* The error sendTelegramMessage rejects with: new Error(await res.text())
\* or the rejection of fetch
TelegramError(outcome, chatId) ==
  CASE outcome = "error-text"  -> [name |-> "Error", message |-> << "Bad Request", chatId >>]
    [] outcome = "error-empty" -> [name |-> "Error", message |-> << >>]
    [] OTHER                   -> [name |-> "TypeError", message |-> << "fetch failed", chatId >>]

\* e?.message || e?.toString() || "Unknown error"
ErrorText(err) == IF err.message # << >> THEN err.message ELSE << err.name >>

NoResponse == [status |-> 0, body |-> << >>]

\* How the Slack webhook POST can end
SlackOutcomes == { "ok", "not-ok", "rejected" }

\* The notifier without its try/catch: a rejected POST rejects the notifier
SlackRaises_noTry(outcome) == outcome = "rejected"

\* Whether sendSlackErrorNotification rejects for an outcome of its POST:
\* the try/catch around fetch and res.text() swallows every one of them.
SlackRaises(outcome) == FALSE

\* The .catch handler on the notifier call in fetch swallows a rejection.
CallerCatches(raised) == TRUE

\* A sendTelegramMessage promise has rejected
Failed(d) == d \notin { "inflight", "ok" }

\* Promise.all over fulfilled promises only resolves once every one is in
PromiseAllState_allSettled(d) ==
  IF \A i \in DOMAIN d : d[i] # "inflight" THEN "fulfilled" ELSE "pending"

\* Promise.any in place of Promise.all: the first fulfilment settles it
PromiseAllState_any(d) ==
  IF \E i \in DOMAIN d : Failed(d[i]) THEN "rejected"
  ELSE IF d = << >> \/ \E i \in DOMAIN d : d[i] = "ok" THEN "fulfilled"
  ELSE "pending"

\* Promise.all over the dispatches d: rejected as soon as one has rejected,
\* fulfilled when every one has fulfilled, pending otherwise
PromiseAllState(d) ==
  IF \E i \in DOMAIN d : Failed(d[i]) THEN "rejected"
  ELSE IF \A i \in DOMAIN d : d[i] = "ok" THEN "fulfilled"
  ELSE "pending"

(* ------------------------------- state --------------------------------- *)

VARIABLES
  env,          \* process.env
  routes,       \* the routing table the handler was built with
  key,          \* the key query parameter of the request
  pc,           \* where fetch stands
  parseFailed,  \* request.json() rejected
  payload,      \* the parsed payload
  message,      \* the extracted, quote-stripped message
  siteUrl,      \* extractUrl(message)
  chatIds,      \* getTelegramChatId(siteUrl, env)
  posts,        \* the sendMessage POSTs issued, in order
  dispatch,     \* state of each sendTelegramMessage promise
  promiseAll,   \* state of the Promise.all promise
  rejection,    \* the reason Promise.all rejected with
  e,            \* the error caught by fetch
  slack,        \* state of the Slack webhook POST
  slackPosts,   \* number of Slack webhook POSTs issued
  slackRaised,  \* sendSlackErrorNotification rejected
  thrown,       \* fetch rejected instead of returning a Response
  response      \* the Response fetch returned

vars == << env, routes, key, pc, parseFailed, payload, message, siteUrl, chatIds, posts,
           dispatch, promiseAll, rejection, e, slack, slackPosts, slackRaised, thrown, response >>

Init ==
  /\ env \in Environments
  /\ routes \in RoutingTables
  /\ key \in Keys
  /\ pc = "start"
  /\ parseFailed = FALSE
  /\ payload = Undefined
  /\ message = << >>
  /\ siteUrl = << >>
  /\ chatIds = NoChat
  /\ posts = << >>
  /\ dispatch = << >>
  /\ promiseAll = "none"
  /\ rejection = NoError
  /\ e = NoError
  /\ slack = "none"
  /\ slackPosts = 0
  /\ slackRaised = FALSE
  /\ thrown = FALSE
  /\ response = NoResponse

(* ------------------------------ actions -------------------------------- *)

\* const env = getRequiredEnv(): throws when a required variable is missing
GetRequiredEnv ==
  /\ pc = "start"
  /\ IF Missing(env) # << >>
     THEN /\ e' = MissingEnvError(Missing(env))
          /\ pc' = "catch"
     ELSE /\ pc' = "auth"
          /\ UNCHANGED e
  /\ UNCHANGED << env, routes, key, parseFailed, payload, message, siteUrl, chatIds, posts,
                  dispatch, promiseAll, rejection, slack, slackPosts, slackRaised, thrown, response >>

\* if (url.searchParams.get("key") !== env.ROUTER_SECRET) return 401
Authenticate ==
  /\ pc = "auth"
  /\ IF KeyMatches(key, env["ROUTER_SECRET"])
     THEN /\ pc' = "json"
          /\ UNCHANGED response
     ELSE /\ response' = [status |-> 401, body |-> << "Not Authorized" >>]
          /\ pc' = "done"
  /\ UNCHANGED << env, routes, key, parseFailed, payload, message, siteUrl, chatIds, posts,
                  dispatch, promiseAll, rejection, e, slack, slackPosts, slackRaised, thrown >>

\* const payload = await request.json().catch(() => ({}))
ParseBody ==
  /\ pc = "json"
  /\ \E b \in Bodies :
       /\ parseFailed' = ~b.json
       /\ payload' = IF b.json THEN b.value ELSE JObj(<< >>)
  /\ pc' = "extract"
  /\ UNCHANGED << env, routes, key, message, siteUrl, chatIds, posts, dispatch, promiseAll,
                  rejection, e, slack, slackPosts, slackRaised, thrown, response >>

\* const message = extractMessage(payload).replace(/^["']|["']$/g, "")
ExtractMessage ==
  /\ pc = "extract"
  /\ LET v == extractMessage(payload)
     IN  IF HasReplace(v)
         THEN /\ message' = StripQuotes(v.s)
              /\ pc' = "route"
              /\ UNCHANGED e
         ELSE /\ e' = NotAFunctionError
              /\ pc' = "catch"
              /\ UNCHANGED message
  /\ UNCHANGED << env, routes, key, parseFailed, payload, siteUrl, chatIds, posts, dispatch,
                  promiseAll, rejection, slack, slackPosts, slackRaised, thrown, response >>

\* siteUrl = extractUrl(message); chatIds = getTelegramChatId(siteUrl, env);
\* if (!chatIds) return 204
Route ==
  /\ pc = "route"
  /\ siteUrl' = extractUrl(message)
  /\ chatIds' = getTelegramChatId(siteUrl', env, routes)
  /\ IF NoRoute(chatIds')
     THEN /\ response' = [status |-> 204, body |-> << >>]
          /\ pc' = "done"
     ELSE /\ pc' = "send"
          /\ UNCHANGED response
  /\ UNCHANGED << env, routes, key, parseFailed, payload, message, posts, dispatch, promiseAll,
                  rejection, e, slack, slackPosts, slackRaised, thrown >>

\* The body of one sendMessage POST
TelegramPost(token, chatId, text) == [token |-> token, chat_id |-> chatId, text |-> text]

\* telegramMessage = message.slice(0, 4000); targets.filter(Boolean).map(
\* sendTelegramMessage): every POST is issued before fetch suspends on
\* Promise.all
Send ==
  /\ pc = "send"
  /\ LET telegramMessage == Slice0(message, TELEGRAM_TEXT_LIMIT)
         targets == Targets(chatIds)
     IN  /\ posts' = posts \o [ i \in DOMAIN targets |->
                        TelegramPost(env["TELEGRAM_BOT_TOKEN"], targets[i], telegramMessage) ]
         /\ dispatch' = [ i \in DOMAIN targets |-> "inflight" ]
         /\ promiseAll' = PromiseAllState(dispatch')
  /\ pc' = "await"
  /\ UNCHANGED << env, routes, key, parseFailed, payload, message, siteUrl, chatIds, rejection,
                  e, slack, slackPosts, slackRaised, thrown, response >>

\* One sendMessage POST completes; sendTelegramMessage resolves when res.ok
\* and rejects otherwise, and Promise.all settles on the first rejection or
\* on the last fulfilment.
TelegramResponds(i, outcome) ==
  /\ i \in DOMAIN dispatch
  /\ dispatch[i] = "inflight"
  /\ dispatch' = [dispatch EXCEPT ![i] = outcome]
  /\ IF promiseAll = "pending"
     THEN /\ promiseAll' = PromiseAllState(dispatch')
          /\ rejection' = IF promiseAll' = "rejected"
                          THEN TelegramError(outcome, posts[i].chat_id)
                          ELSE rejection
     ELSE UNCHANGED << promiseAll, rejection >>
  /\ UNCHANGED << env, routes, key, pc, parseFailed, payload, message, siteUrl, chatIds, posts,
                  e, slack, slackPosts, slackRaised, thrown, response >>

\* await Promise.all(...) returns: return new Response("ok"), or the
\* rejection is thrown into the catch block
AwaitAll ==
  /\ pc = "await"
  /\ promiseAll \in { "fulfilled", "rejected" }
  /\ IF promiseAll = "fulfilled"
     THEN /\ response' = [status |-> 200, body |-> << "ok" >>]
          /\ pc' = "done"
          /\ UNCHANGED e
     ELSE /\ e' = rejection
          /\ pc' = "catch"
          /\ UNCHANGED response
  /\ UNCHANGED << env, routes, key, parseFailed, payload, message, siteUrl, chatIds, posts,
                  dispatch, promiseAll, rejection, slack, slackPosts, slackRaised, thrown >>

\* new Response(`Error handling request: ${...}`, { status: 500 })
ErrorResponse(err) == [status |-> 500, body |-> << "Error handling request:" >> \o ErrorText(err)]

\* The notifier called without looking at the URL
SlackConfigured_always(en) == TRUE

\* process.env.SLACK_ERROR_WEBHOOK_URL is truthy
SlackConfigured(en) == EnvTruthy(en[SLACK_ERROR_WEBHOOK_URL])

\* catch (e): with a webhook URL, sendSlackErrorNotification issues its POST
\* and fetch suspends on it; without one, fetch warns and returns the 500
Catch ==
  /\ pc = "catch"
  /\ IF SlackConfigured(env)
     THEN /\ slack' = "inflight"
          /\ slackPosts' = slackPosts + 1
          /\ pc' = "slack"
          /\ UNCHANGED response
     ELSE /\ response' = ErrorResponse(e)
          /\ pc' = "done"
          /\ UNCHANGED << slack, slackPosts >>
  /\ UNCHANGED << env, routes, key, parseFailed, payload, message, siteUrl, chatIds, posts,
                  dispatch, promiseAll, rejection, e, slackRaised, thrown >>

\* The Slack POST completes inside sendSlackErrorNotification
SlackResponds(outcome) ==
  /\ pc = "slack"
  /\ slack = "inflight"
  /\ slack' = outcome
  /\ slackRaised' = SlackRaises(outcome)
  /\ pc' = "respond"
  /\ UNCHANGED << env, routes, key, parseFailed, payload, message, siteUrl, chatIds, posts,
                  dispatch, promiseAll, rejection, e, slackPosts, thrown, response >>

\* After the notifier call: return the 500 built from the caught error
Respond ==
  /\ pc = "respond"
  /\ IF slackRaised /\ ~CallerCatches(slackRaised)
     THEN /\ thrown' = TRUE
          /\ UNCHANGED response
     ELSE /\ response' = ErrorResponse(e)
          /\ UNCHANGED thrown
  /\ pc' = "done"
  /\ UNCHANGED << env, routes, key, parseFailed, payload, message, siteUrl, chatIds, posts,
                  dispatch, promiseAll, rejection, e, slack, slackPosts, slackRaised >>

\* Some sendMessage POST in flight completes, with any outcome
TelegramCompletes ==
  \E i \in DOMAIN dispatch : \E outcome \in TelegramOutcomes : TelegramResponds(i, outcome)

\* The Slack webhook POST completes, with any outcome
SlackCompletes == \E outcome \in SlackOutcomes : SlackResponds(outcome)

Next ==
  \/ GetRequiredEnv
  \/ Authenticate
  \/ ParseBody
  \/ ExtractMessage
  \/ Route
  \/ Send
  \/ TelegramCompletes
  \/ AwaitAll
  \/ Catch
  \/ SlackCompletes
  \/ Respond

Spec == Init /\ [][Next]_vars

(* --------------------------- properties -------------------------------- *)

\* The required variables that are unset or empty
MissingNames ==
  { k \in EnvKeys \ { SLACK_ERROR_WEBHOOK_URL } : env[k] = EnvUndefined \/ env[k] = "" }

\* The request carries the configured secret
Authenticated == MissingNames = { } /\ key = env["ROUTER_SECRET"]

\* fetch got past extractMessage(...).replace(...): message is defined
MessageExtracted ==
  /\ Authenticated
  /\ pc \notin { "start", "auth", "json", "extract" }
  /\ e # NotAFunctionError

\* m holds "(" http:// or https:// , one or more characters other than ")",
\* and ")"
HasParenUrl(m) ==
  \E i \in 1..Len(m) :
    /\ m[i] = "("
    /\ \E n \in { 7, 8 } :
         /\ i + n + 1 <= Len(m)
         /\ SubSeq(m, i + 1, i + n) \in { <<"h", "t", "t", "p", ":", "/", "/">>,
                                          <<"h", "t", "t", "p", "s", ":", "/", "/">> }
         /\ m[i + n + 1] # ")"
         /\ \E k \in (i + n + 2)..Len(m) : m[k] = ")"

\* p occurs in u
Contains(u, p) ==
  \E o \in 0..(Len(u) - Len(p)) : \A j \in 1..Len(p) : u[o + j] = p[j]

\* The extracted URL contains no pattern of the routing table
NoPatternIn(u) == \A i \in DOMAIN routes : ~Contains(u, routes[i].pattern)

NoOutbound == posts = << >> /\ slackPosts = 0

\* C1 as stated: a request whose key differs from the configured
\* ROUTER_SECRET is answered 401 and causes no outbound call, whatever the
\* rest of the configuration.
C1_AnyConfiguration ==
  (env["ROUTER_SECRET"] = Configured["ROUTER_SECRET"] /\ key # env["ROUTER_SECRET"])
    => /\ NoOutbound
       /\ pc = "done" => response.status = 401

\* C1 amended: when every required variable is set, a request whose key
\* differs from ROUTER_SECRET (a missing key included) is answered 401
\* "Not Authorized", does nothing past the comparison and causes no
\* outbound call, whatever SLACK_ERROR_WEBHOOK_URL holds.
C1_Unauthorized ==
  (MissingNames = { } /\ key # env["ROUTER_SECRET"])
    => /\ NoOutbound
       /\ pc \in { "start", "auth", "done" }
       /\ pc = "done" => response = [status |-> 401, body |-> << "Not Authorized" >>]

C1_Witness ==
  /\ MissingNames = { }
  /\ key = NoKey
  /\ env[SLACK_ERROR_WEBHOOK_URL] = Configured[SLACK_ERROR_WEBHOOK_URL]
  /\ pc = "done"
  /\ response.status = 401

\* C2: an authenticated request whose message holds no parenthesized
\* http(s) URL, or whose extracted URL contains no pattern of the routing
\* table, is answered 204 and causes no outbound POST, neither to Telegram
\* nor to the error webhook.
C2_NoRoute ==
  (MessageExtracted /\ (~HasParenUrl(message) \/ (pc # "route" /\ NoPatternIn(siteUrl))))
    => /\ NoOutbound
       /\ pc \in { "route", "done" }
       /\ pc = "done" => response = [status |-> 204, body |-> << >>]

C2_Witness ==
  /\ MessageExtracted
  /\ HasParenUrl(message)
  /\ siteUrl # << >>
  /\ NoPatternIn(siteUrl)
  /\ pc = "done"
  /\ response.status = 204

\* C3: fails if any fails.  Once a sendMessage POST of a routed request has
\* failed the request is never answered 200, and its answer is 500 with the
\* text of a failed dispatch in the body, whatever became of the other
\* dispatches; 200 is answered only when every dispatch succeeded.
C3_FailsIfAnyFails ==
  /\ (\E i \in DOMAIN dispatch : Failed(dispatch[i]))
       => /\ response.status \in { 0, 500 }
          /\ pc = "done" =>
               /\ response.status = 500
               /\ \E i \in DOMAIN dispatch :
                    /\ Failed(dispatch[i])
                    /\ response.body = << "Error handling request:" >>
                         \o ErrorText(TelegramError(dispatch[i], posts[i].chat_id))
  /\ response.status = 200 => \A i \in DOMAIN dispatch : dispatch[i] = "ok"

C3_Witness ==
  /\ pc = "done"
  /\ response.status = 500
  /\ \E i, j, k \in DOMAIN dispatch :
       /\ dispatch[i] = "error-text"
       /\ dispatch[j] = "ok"
       /\ dispatch[k] = "rejected"
       /\ response.body = << "Error handling request:", "Bad Request", posts[i].chat_id >>

C5_NotifierNeverAffectsResponse ==
  /\ ~slackRaised
  /\ ~thrown
  /\ (pc = "done" /\ e # NoError)
       => /\ response.status = 500
          /\ response.body = << "Error handling request:" >>
               \o (IF e.message = << >> THEN << e.name >> ELSE e.message)
  /\ (pc \in { "catch", "slack", "respond" }) => (e # NoError /\ response = NoResponse)
  /\ response.status = 500 => e # NoError

C5_Witness ==
  /\ pc = "done"
  /\ slack = "rejected"
  /\ e = NotAFunctionError
  /\ response.status = 500

C7_PayloadNeverFails ==
  ~(Authenticated /\ posts = << >> /\ response.status = 500)

\* C8: an authenticated request whose message holds a parenthesized URL
\* containing a pattern is routed by the first matching entry in table
\* order: one sendMessage POST goes to each destination of that entry, in
\* order, and to no other; no POST is ever repeated; and when every
\* dispatch succeeded the response is 200 "ok".
C8_ExactlyOnePostPerDestination ==
  (MessageExtracted /\ pc \notin { "route", "send" } /\ HasParenUrl(message) /\ ~NoPatternIn(siteUrl))
    => \E i \in DOMAIN routes :
         /\ Contains(siteUrl, routes[i].pattern)
         /\ \A h \in 1..(i - 1) : ~Contains(siteUrl, routes[h].pattern)
         /\ Len(posts) = Len(routes[i].keys)
         /\ \A n \in DOMAIN posts :
              /\ posts[n].chat_id = env[routes[i].keys[n]]
              /\ posts[n].token = env["TELEGRAM_BOT_TOKEN"]
         /\ DOMAIN dispatch = DOMAIN posts
         /\ (pc = "done" /\ \A n \in DOMAIN dispatch : dispatch[n] = "ok")
              => response = [status |-> 200, body |-> << "ok" >>]

C8_Witness ==
  /\ pc = "done"
  /\ response.status = 200
  /\ Contains(siteUrl, PATTERN_1CLICK)
  /\ Contains(siteUrl, PATTERN_BUNGEE)
  /\ Len(posts) >= 2

\* C9: the text of every sendMessage POST is the first 4000 characters of
\* the extracted message: never longer than 4000, and the whole message
\* when that has at most 4000 characters.
C9_TextTruncated ==
  \A n \in DOMAIN posts :
    /\ Len(posts[n].text) <= 4000
    /\ Len(message) <= 4000 => posts[n].text = message
    /\ Len(message) > 4000 => Len(posts[n].text) = 4000
    /\ \A j \in DOMAIN posts[n].text : posts[n].text[j] = message[j]

C9_Witness ==
  /\ posts # << >>
  /\ Len(message) > 4000
  /\ Len(posts[1].text) = 4000

\* C10: the error webhook is POSTed at most once per request, only in the
\* failure path and only when SLACK_ERROR_WEBHOOK_URL is set; a request
\* answered 200, 204 or 401 never POSTs to it; the status of a response is
\* 200, 204, 401 or 500.
C10_ErrorWebhookOnlyOnFailure ==
  /\ slackPosts <= 1
  /\ slackPosts = 1 =>
       /\ e # NoError
       /\ pc \in { "slack", "respond", "done" }
       /\ env[SLACK_ERROR_WEBHOOK_URL] = Configured[SLACK_ERROR_WEBHOOK_URL]
  /\ response.status \in { 200, 204, 401 } => slackPosts = 0
  /\ response # NoResponse => response.status \in { 200, 204, 401, 500 }
  /\ pc = "done" => (response # NoResponse \/ thrown)

C10_Witness ==
  /\ slackPosts = 1
  /\ slack = "ok"
  /\ pc = "done"
  /\ response.status = 500

====
